---- MODULE Spec2Model ----
(***************************************************************************)
(* Model of tracing-actix-web's TracingLogger middleware (src/src/lib.rs). *)
(* One worker thread drives the wrappers built by one TracingLogger: it    *)
(* calls TracingLoggerMiddleware::call, polls the returned futures and may *)
(* drop them.  The thread-local stack of entered spans is `current`.       *)
(***************************************************************************)
EXTENDS Integers, Sequences, FiniteSets, TLC

VARIABLES factory, wrappers, calls, spans, current, running

vars == <<factory, wrappers, calls, spans, current, running>>

\* ---------------------------------------------------------------- bounds
MaxCalls == 2
MaxWrappers == 2
MaxPolls == 2
NumUuids == 2

\* ------------------------------------------------------------- constants
\* tracing::field::Empty: the field is declared but holds no value.
Empty == 0

HealthzPath == "/healthz"

ServiceNames == {"app", ""}

\* The next pipeline stages a host hands to new_transform.
Services == {"app_routes", "inner_middleware"}

\* Poll<Result<(), Error>> of the downstream service's poll_ready.
ReadyResults == {"pending", "ready", "error"}

\* No poll_ready call has returned yet.
NotPolled == [ds |-> "none", ret |-> "none"]

Uuids == 1..NumUuids

\* HeaderValue of the User-Agent header: present or not, and whether its
\* bytes are visible ASCII (HeaderValue::to_str succeeds only then).
NoHeader == [present |-> FALSE, ascii |-> FALSE, text |-> ""]

\* Option<String> returned by ServiceRequest::match_pattern.
NoPattern == [matched |-> FALSE, pattern |-> ""]

Requests ==
  { [path |-> "/healthz", method |-> "GET",
     user_agent |-> [present |-> TRUE, ascii |-> TRUE, text |-> "kube-probe"],
     match_pattern |-> [matched |-> TRUE, pattern |-> "/healthz"]],
    [path |-> "/orders/42", method |-> "GET",
     user_agent |-> [present |-> TRUE, ascii |-> TRUE, text |-> "curl"],
     match_pattern |-> [matched |-> TRUE, pattern |-> "/orders/{id}"]],
    [path |-> "/healthz/", method |-> "POST",
     user_agent |-> NoHeader,
     match_pattern |-> NoPattern],
    [path |-> "/missing", method |-> "GET",
     user_agent |-> [present |-> TRUE, ascii |-> FALSE, text |-> "\\xff"],
     match_pattern |-> NoPattern] }

\* Result<ServiceResponse<B>, Error> produced by the downstream service.
NoOutcome == [kind |-> "none", status |-> 0, body |-> "", error |-> ""]

Outcomes ==
  { [kind |-> "ok",  status |-> 200, body |-> "order", error |-> ""],
    [kind |-> "ok",  status |-> 404, body |-> "",      error |-> ""],
    [kind |-> "err", status |-> 0,   body |-> "",      error |-> "ErrorInternalServerError"] }

\* ------------------------------------------------------- pure operators
\* error.as_response_error().status_code()
StatusOfError(error) ==
  CASE error = "ErrorNotFound" -> 404
    [] error = "ErrorInternalServerError" -> 500
    [] OTHER -> 500

IsBypassPathNever(path) == FALSE

\* path == "/healthz"
IsBypassPath(path) == path = HealthzPath

UserAgentOfLossy(req) ==
  IF req.user_agent.present THEN req.user_agent.text ELSE ""

\* headers().get("User-Agent").and_then(|h| h.to_str().ok()).unwrap_or("")
UserAgentOf(req) ==
  IF req.user_agent.present /\ req.user_agent.ascii
  THEN req.user_agent.text
  ELSE ""

RouteOfPath(req) == req.path

\* req.match_pattern().unwrap_or(String::from(""))
RouteOf(req) ==
  IF req.match_pattern.matched THEN req.match_pattern.pattern ELSE ""

\* tracing::info_span!("Request", ...)
InfoSpan(service_name, req, uuid) ==
  [ kind             |-> "request",
    request_id       |-> uuid,
    http_status_code |-> Empty,
    enduser_id       |-> "",
    service_name     |-> service_name,
    http_user_agent  |-> UserAgentOf(req),
    http_method      |-> req.method,
    http_target      |-> req.path,
    http_route       |-> RouteOf(req),
    statusWrites     |-> 0 ]

NewSpansTwice(ss, service_name, req, uuid) ==
  ss \o <<InfoSpan(service_name, req, uuid), InfoSpan(service_name, req, uuid)>>

\* the span created by one evaluation of info_span! is registered once
NewSpans(ss, service_name, req, uuid) ==
  Append(ss, InfoSpan(service_name, req, uuid))

StatusOfOutcomeOkOnly(outcome) ==
  IF outcome.kind = "ok" THEN outcome.status ELSE 200

\* match outcome { Ok(response) => response.response().status(),
\*                 Err(error) => error.as_response_error().status_code() }
StatusOfOutcome(outcome) ==
  IF outcome.kind = "ok" THEN outcome.status ELSE StatusOfError(outcome.error)

RecordStatusTwice(span, code) ==
  [span EXCEPT !.http_status_code = code, !.statusWrites = @ + 2]

RecordStatusAndUser(span, code) ==
  [span EXCEPT !.http_status_code = code, !.statusWrites = @ + 1,
               !.enduser_id = "anonymous"]

\* span.record("http.status_code", &status_code.as_u16())
RecordStatus(span, code) ==
  [span EXCEPT !.http_status_code = code, !.statusWrites = @ + 1]

InspectedSwallow(outcome) ==
  IF outcome.kind = "err"
  THEN [kind |-> "ok", status |-> StatusOfError(outcome.error), body |-> "", error |-> ""]
  ELSE outcome

\* FutureExt::inspect hands the closure a shared reference and resolves to
\* the outcome itself.
Inspected(outcome) == outcome

InvokedLazy(n) == n

InvokedRetry(n) == n + 2

\* self.service.call(req): one invocation of the downstream service
Invoked(n) == n + 1

Top(cur) == IF cur = <<>> THEN 0 ELSE cur[Len(cur)]

\* Instrumented::poll: let _enter = self.span.enter();
Enter(cur, s) == Append(cur, s)

ExitLeak(cur) == cur

\* drop of the Entered guard when Instrumented::poll returns
Exit(cur) == SubSeq(cur, 1, Len(cur) - 1)

InstrumentedEventsSwapped == <<"span_create", "ds_invoke", "ctx_attach">>

\* order of the statements of call on the instrumented path
InstrumentedEvents == <<"span_create", "ctx_attach", "ds_invoke">>

\* ---------------------------------------------------------------- state
Init ==
  /\ factory \in [service_name : ServiceNames]
  /\ wrappers = <<>>
  /\ calls = <<>>
  /\ spans = <<>>
  /\ current = <<>>
  /\ running = 0

CallIds == DOMAIN calls

Instrumented(i) == calls[i].span # 0

NewTransformTakesName(service) ==
  /\ Len(wrappers) < MaxWrappers
  /\ wrappers' = Append(wrappers,
       [service_name |-> factory.service_name, service |-> service,
        ready |-> NotPolled])
  /\ factory' = [factory EXCEPT !.service_name = ""]
  /\ UNCHANGED <<calls, spans, current, running>>

\* Transform::new_transform: ok(TracingLoggerMiddleware { service_name:
\* self.service_name.clone(), service })
NewTransform(service) ==
  /\ Len(wrappers) < MaxWrappers
  /\ wrappers' = Append(wrappers,
       [service_name |-> factory.service_name, service |-> service,
        ready |-> NotPolled])
  /\ UNCHANGED <<factory, calls, spans, current, running>>

PollReadyAlways(ds) == "ready"

\* self.service.poll_ready(cx)
PollReadyResult(ds) == ds

\* Service::poll_ready; ds is what the downstream service answers.
PollReady(w, ds) ==
  /\ running = 0
  /\ w \in DOMAIN wrappers
  /\ wrappers' = [wrappers EXCEPT
                    ![w].ready = [ds |-> ds, ret |-> PollReadyResult(ds)]]
  /\ UNCHANGED <<factory, calls, spans, current, running>>

CallNoAttach(w, req, uuid) ==
  /\ running = 0
  /\ Len(calls) < MaxCalls
  /\ w \in DOMAIN wrappers
  /\ LET i == Len(calls) + 1 IN
     IF IsBypassPath(req.path)
     THEN /\ calls' = Append(calls,
               [wrapper |-> w, req |-> req, pc |-> "invoke", span |-> 0,
                ext |-> 0, dsCalls |-> Invoked(0), dsOutcome |-> NoOutcome,
                returned |-> NoOutcome, polls |-> 0,
                events |-> <<"ds_invoke">>, routed |-> req.match_pattern])
          /\ spans' = spans
     ELSE /\ spans' = NewSpans(spans, wrappers[w].service_name, req, uuid)
          /\ calls' = Append(calls,
               [wrapper |-> w, req |-> req, pc |-> "invoke",
                span |-> Len(spans'), ext |-> 0,
                dsCalls |-> Invoked(0), dsOutcome |-> NoOutcome,
                returned |-> NoOutcome, polls |-> 0,
                events |-> InstrumentedEvents, routed |-> req.match_pattern])
  /\ running' = Len(calls) + 1
  /\ UNCHANGED <<factory, wrappers, current>>

\* Service::call up to the point where the downstream service's call runs.
\* routed is the request's match information as it travels downstream.
Call(w, req, uuid) ==
  /\ running = 0
  /\ Len(calls) < MaxCalls
  /\ w \in DOMAIN wrappers
  /\ LET i == Len(calls) + 1 IN
     IF IsBypassPath(req.path)
     THEN /\ calls' = Append(calls,
               [wrapper |-> w, req |-> req, pc |-> "invoke", span |-> 0,
                ext |-> 0, dsCalls |-> Invoked(0), dsOutcome |-> NoOutcome,
                returned |-> NoOutcome, polls |-> 0,
                events |-> <<"ds_invoke">>, routed |-> req.match_pattern])
          /\ spans' = spans
     ELSE /\ spans' = NewSpans(spans, wrappers[w].service_name, req, uuid)
          /\ calls' = Append(calls,
               [wrapper |-> w, req |-> req, pc |-> "invoke",
                span |-> Len(spans'), ext |-> Len(spans'),
                dsCalls |-> Invoked(0), dsOutcome |-> NoOutcome,
                returned |-> NoOutcome, polls |-> 0,
                events |-> InstrumentedEvents, routed |-> req.match_pattern])
  /\ running' = Len(calls) + 1
  /\ UNCHANGED <<factory, wrappers, current>>

\* The downstream call returns its future; call wraps it and returns
\* Box::pin(fut).
CallReturn(i) ==
  /\ running = i
  /\ calls[i].pc = "invoke"
  /\ calls' = [calls EXCEPT ![i].pc = "pending"]
  /\ running' = 0
  /\ UNCHANGED <<factory, wrappers, spans, current>>

\* The host polls the boxed future.
Poll(i) ==
  /\ running = 0
  /\ calls[i].pc = "pending"
  /\ calls[i].polls < MaxPolls
  /\ calls' = [calls EXCEPT ![i].pc = "polling", ![i].polls = @ + 1]
  /\ current' = IF Instrumented(i) THEN Enter(current, calls[i].span) ELSE current
  /\ running' = i
  /\ UNCHANGED <<factory, wrappers, spans>>

\* The downstream future returns Poll::Pending.
DownstreamPending(i) ==
  /\ running = i
  /\ calls[i].pc = "polling"
  /\ calls[i].polls < MaxPolls
  /\ calls' = [calls EXCEPT ![i].pc = "pending"]
  /\ current' = IF Instrumented(i) THEN Exit(current) ELSE current
  /\ running' = 0
  /\ UNCHANGED <<factory, wrappers, spans>>

DownstreamReadyOkOnly(i, outcome) ==
  /\ running = i
  /\ calls[i].pc = "polling"
  /\ IF Instrumented(i) /\ outcome.kind = "ok"
     THEN /\ calls' = [calls EXCEPT ![i].pc = "inspect", ![i].dsOutcome = outcome]
          /\ current' = Exit(current)
          /\ running' = i
     ELSE /\ calls' = [calls EXCEPT ![i].pc = "done", ![i].dsOutcome = outcome,
                                    ![i].returned = outcome,
                                    ![i].events = Append(@, "return")]
          /\ current' = IF Instrumented(i) THEN Exit(current) ELSE current
          /\ running' = 0
  /\ UNCHANGED <<factory, wrappers, spans>>

\* The downstream future returns Poll::Ready(outcome).
DownstreamReady(i, outcome) ==
  /\ running = i
  /\ calls[i].pc = "polling"
  /\ IF Instrumented(i)
     THEN /\ calls' = [calls EXCEPT ![i].pc = "inspect", ![i].dsOutcome = outcome]
          /\ current' = Exit(current)
          /\ running' = i
     ELSE /\ calls' = [calls EXCEPT ![i].pc = "done", ![i].dsOutcome = outcome,
                                    ![i].returned = outcome,
                                    ![i].events = Append(@, "return")]
          /\ current' = current
          /\ running' = 0
  /\ UNCHANGED <<factory, wrappers, spans>>

InspectShared(i) ==
  /\ running = i
  /\ calls[i].pc = "inspect"
  /\ spans' = [spans EXCEPT ![Len(spans)] =
                 RecordStatus(@, StatusOfOutcome(calls[i].dsOutcome))]
  /\ calls' = [calls EXCEPT ![i].pc = "done",
                            ![i].returned = Inspected(calls[i].dsOutcome),
                            ![i].events = @ \o <<"status_record", "return">>]
  /\ running' = 0
  /\ UNCHANGED <<factory, wrappers, current>>

\* The inspect closure runs on the outcome, then the future resolves.
Inspect(i) ==
  /\ running = i
  /\ calls[i].pc = "inspect"
  /\ spans' = [spans EXCEPT ![calls[i].span] =
                 RecordStatus(@, StatusOfOutcome(calls[i].dsOutcome))]
  /\ calls' = [calls EXCEPT ![i].pc = "done",
                            ![i].returned = Inspected(calls[i].dsOutcome),
                            ![i].events = @ \o <<"status_record", "return">>]
  /\ running' = 0
  /\ UNCHANGED <<factory, wrappers, current>>

DropFutureRecords(i) ==
  /\ running = 0
  /\ calls[i].pc = "pending"
  /\ calls' = [calls EXCEPT ![i].pc = "dropped"]
  /\ spans' = IF Instrumented(i)
              THEN [spans EXCEPT ![calls[i].span] = RecordStatus(@, 499)]
              ELSE spans
  /\ UNCHANGED <<factory, wrappers, current, running>>

\* The host drops the boxed future before it resolved.
DropFuture(i) ==
  /\ running = 0
  /\ calls[i].pc = "pending"
  /\ calls' = [calls EXCEPT ![i].pc = "dropped"]
  /\ UNCHANGED <<factory, wrappers, spans, current, running>>

\* A downstream handler takes the span out of the request's extensions and
\* fills the enduser.id slot declared by the wrapper.
DownstreamEnrich(i) ==
  /\ running = i
  /\ calls[i].pc \in {"invoke", "polling"}
  /\ calls[i].ext # 0
  /\ spans[calls[i].ext].enduser_id = ""
  /\ spans' = [spans EXCEPT ![calls[i].ext].enduser_id = "user-7"]
  /\ UNCHANGED <<factory, wrappers, calls, current, running>>

\* A router placed after the wrapper matches the request's pattern.
RouterMatches(i) ==
  /\ running = i
  /\ calls[i].pc \in {"invoke", "polling"}
  /\ ~calls[i].routed.matched
  /\ calls' = [calls EXCEPT ![i].routed = [matched |-> TRUE, pattern |-> "/{tail}*"]]
  /\ UNCHANGED <<factory, wrappers, spans, current, running>>

\* The request lifecycle behind one wrapper; HostSpec covers several.
Next ==
  \/ (wrappers = <<>> /\ \E service \in Services : NewTransform(service))
  \/ \E w \in DOMAIN wrappers, req \in Requests, uuid \in Uuids : Call(w, req, uuid)
  \/ \E i \in CallIds : CallReturn(i)
  \/ \E i \in CallIds : Poll(i)
  \/ \E i \in CallIds : DownstreamPending(i)
  \/ \E i \in CallIds, outcome \in Outcomes : DownstreamReady(i, outcome)
  \/ \E i \in CallIds : Inspect(i)
  \/ \E i \in CallIds : DropFuture(i)

Spec == Init /\ [][Next]_vars

\* The host keeps polling a future it has not dropped, the worker thread
\* runs each synchronous step to its end, and downstream work settles
\* (MaxPolls bounds the number of times a downstream future stays pending).
Fairness ==
  \A i \in 1..MaxCalls :
    /\ WF_vars(i \in CallIds /\ CallReturn(i))
    /\ WF_vars(i \in CallIds /\ Poll(i))
    /\ WF_vars(i \in CallIds /\
                 (DownstreamPending(i) \/ \E outcome \in Outcomes : DownstreamReady(i, outcome)))
    /\ WF_vars(i \in CallIds /\ Inspect(i))

FairSpec == Init /\ [][Next]_vars /\ Fairness

\* The pipeline side: several wrappers built by the factory, readiness
\* checks, and requests handled through them.
HostRequests == {r \in Requests : r.path \in {"/healthz", "/orders/42"}}

HostOutcomes == {o \in Outcomes : o.status # 404}

HostNext ==
  \/ \E service \in Services : NewTransform(service)
  \/ \E w \in DOMAIN wrappers, ds \in ReadyResults : PollReady(w, ds)
  \/ \E w \in DOMAIN wrappers, req \in HostRequests : Call(w, req, 1)
  \/ \E i \in CallIds : CallReturn(i)
  \/ \E i \in CallIds : Poll(i)
  \/ \E i \in CallIds : DownstreamPending(i)
  \/ \E i \in CallIds, outcome \in HostOutcomes : DownstreamReady(i, outcome)
  \/ \E i \in CallIds : Inspect(i)
  \/ \E i \in CallIds : DropFuture(i)

HostSpec == Init /\ [][HostNext]_vars

\* The downstream side: one wrapper in front of handlers that enrich the
\* span and of a router that matches after the wrapper ran.
DownstreamRequests == {r \in Requests : r.path \in {"/healthz", "/orders/42", "/healthz/"}}

DownstreamNext ==
  \/ (wrappers = <<>> /\ NewTransform("app_routes"))
  \/ \E w \in DOMAIN wrappers, req \in DownstreamRequests : Call(w, req, 1)
  \/ \E i \in CallIds : CallReturn(i)
  \/ \E i \in CallIds : Poll(i)
  \/ \E i \in CallIds : DownstreamPending(i)
  \/ \E i \in CallIds, outcome \in Outcomes : DownstreamReady(i, outcome)
  \/ \E i \in CallIds : Inspect(i)
  \/ \E i \in CallIds : DropFuture(i)
  \/ \E i \in CallIds : DownstreamEnrich(i)
  \/ \E i \in CallIds : RouterMatches(i)

DownstreamSpec == Init /\ [][DownstreamNext]_vars

\* ------------------------------------------------------------ properties
Bypassed(i) == calls[i].req.path = HealthzPath

\* C1: a request whose path is exactly "/healthz" gets no span, nothing in
\* its extensions, no status record, and its returned outcome is the one
\* the downstream service produced.
C1_BypassUninstrumented ==
  /\ \A i \in CallIds : Bypassed(i) =>
       /\ calls[i].span = 0
       /\ calls[i].ext = 0
       /\ calls[i].events \in {<<"ds_invoke">>, <<"ds_invoke", "return">>}
       /\ calls[i].pc = "done" =>
            /\ calls[i].dsOutcome \in Outcomes
            /\ calls[i].returned = calls[i].dsOutcome
       /\ calls[i].pc # "done" => calls[i].returned = NoOutcome
  /\ (\A i \in CallIds : Bypassed(i)) => spans = <<>>

C1_Witness ==
  \E i \in CallIds :
    /\ Bypassed(i)
    /\ calls[i].pc = "done"
    /\ calls[i].returned.kind = "err"
    /\ spans = <<>>

\* C2: every handled request whose path is not the bypass path has exactly
\* one span of its own, whatever became of the request; the number of spans
\* created equals the number of non-bypass requests handled.
C2_OneSpanPerInstrumented ==
  /\ Len(spans) = Cardinality({i \in CallIds : ~Bypassed(i)})
  /\ \A i \in CallIds : ~Bypassed(i) => calls[i].span \in 1..Len(spans)
  /\ \A i, j \in CallIds :
       (~Bypassed(i) /\ ~Bypassed(j) /\ i # j) => calls[i].span # calls[j].span

C2_Witness ==
  \E i, j \in CallIds :
    /\ ~Bypassed(i) /\ calls[i].pc = "dropped"
    /\ ~Bypassed(j) /\ calls[j].pc = "done" /\ calls[j].returned.kind = "err"
    /\ Len(spans) = 2

\* C3: http.status_code of an instrumented request's span is unset and
\* unwritten until the downstream call has resolved, and has been written
\* exactly once when the request is done; it is never written twice.
C3_StatusWrittenOnce ==
  \A i \in CallIds : Instrumented(i) =>
    LET s == spans[calls[i].span] IN
    /\ s.statusWrites <= 1
    /\ calls[i].dsOutcome = NoOutcome =>
         (s.http_status_code = Empty /\ s.statusWrites = 0)
    /\ calls[i].pc # "done" =>
         (s.http_status_code = Empty /\ s.statusWrites = 0)
    /\ calls[i].pc = "done" =>
         (s.http_status_code # Empty /\ s.statusWrites = 1
            /\ calls[i].dsOutcome # NoOutcome)

C3_Witness ==
  \E i \in CallIds :
    /\ Instrumented(i)
    /\ calls[i].pc = "done"
    /\ calls[i].polls = 2
    /\ spans[calls[i].span].statusWrites = 1

\* C4: once the downstream call of an instrumented request has resolved and
\* the request is done, http.status_code holds the response's status for a
\* success and the status of the error's conversion for a failure.
C4_RecordedStatusIsDerived ==
  \A i \in CallIds : (Instrumented(i) /\ calls[i].pc = "done") =>
    LET s == spans[calls[i].span]
        o == calls[i].dsOutcome IN
    /\ o.kind = "ok" => s.http_status_code = o.status
    /\ o.kind = "err" => s.http_status_code = StatusOfError(o.error)
    /\ o.error = "ErrorInternalServerError" => s.http_status_code = 500

C4_Witness ==
  \E i, j \in CallIds :
    /\ Instrumented(i) /\ calls[i].pc = "done"
    /\ calls[i].dsOutcome.kind = "ok"
    /\ spans[calls[i].span].http_status_code = 404
    /\ Instrumented(j) /\ calls[j].pc = "done"
    /\ calls[j].dsOutcome.kind = "err"
    /\ spans[calls[j].span].http_status_code = 500

\* C5: on both paths the outcome handed back to the caller is the outcome
\* the downstream service produced: same kind, status, body and error.
C5_OutcomeUnchanged ==
  \A i \in CallIds :
    /\ calls[i].pc = "done" =>
         (calls[i].dsOutcome \in Outcomes /\ calls[i].returned = calls[i].dsOutcome)
    /\ calls[i].pc # "done" => calls[i].returned = NoOutcome

C5_Witness ==
  \E i, j \in CallIds :
    /\ Instrumented(i) /\ calls[i].pc = "done" /\ calls[i].returned.body = "order"
    /\ Bypassed(j) /\ calls[j].pc = "done" /\ calls[j].returned.status = 404

\* C6: the downstream service is invoked exactly once per handled request,
\* a downstream failure is returned as that same failure, and every failure
\* returned is one the downstream service produced.
C6_InvokedOnceFailurePassed ==
  \A i \in CallIds :
    /\ calls[i].dsCalls = 1
    /\ (calls[i].pc = "done" /\ calls[i].dsOutcome.kind = "err") =>
         calls[i].returned = calls[i].dsOutcome
    /\ calls[i].returned.kind = "err" => calls[i].dsOutcome = calls[i].returned

C6_Witness ==
  \E i, j \in CallIds :
    /\ Instrumented(i) /\ calls[i].pc = "done"
    /\ calls[i].returned.kind = "err" /\ calls[i].dsCalls = 1
    /\ Bypassed(j) /\ calls[j].pc = "done"
    /\ calls[j].returned.kind = "err" /\ calls[j].dsCalls = 1

\* C7: whenever downstream work of an instrumented request executes, in the
\* synchronous part of the downstream call as well as in every poll of its
\* future, the request's span is the entered span of the thread.
C7_DownstreamInsideSpan ==
  \A i \in CallIds :
    (Instrumented(i) /\ calls[i].pc \in {"invoke", "polling"}) =>
      Top(current) = calls[i].span

\* C8: a request's span is entered only while that request's downstream
\* future is being polled, and it is the entered span at every such poll;
\* while another request's work runs it is not entered.
C8_SpanEnteredOnlyForOwnWork ==
  \A i \in CallIds : Instrumented(i) =>
    /\ (\E k \in DOMAIN current : current[k] = calls[i].span) =>
         (running = i /\ calls[i].pc = "polling")
    /\ calls[i].pc = "polling" => current = <<calls[i].span>>
    /\ (running # i /\ running # 0) =>
         \A k \in DOMAIN current : current[k] # calls[i].span

C8_Witness ==
  \E i, j \in CallIds :
    /\ i # j /\ Instrumented(i) /\ Instrumented(j)
    /\ calls[i].pc = "polling" /\ calls[i].polls = 2
    /\ calls[j].pc = "pending" /\ calls[j].polls = 1
    /\ current = <<calls[i].span>>

\* C9: the status of an instrumented request is recorded while the
\* request's span is still the entered scope.
C9_StatusRecordedInsideSpan ==
  \A i \in CallIds :
    (Instrumented(i) /\ calls[i].pc = "inspect") => Top(current) = calls[i].span

AllEvents == <<"span_create", "ctx_attach", "ds_invoke", "status_record", "return">>

\* C10: the events of an instrumented request occur in the order span
\* creation, context attach, downstream invoke, status record, return, in
\* every interleaving with other requests.
C10_EventOrder ==
  \A i \in CallIds : Instrumented(i) =>
    LET ev == calls[i].events IN
    /\ Len(ev) <= Len(AllEvents)
    /\ ev = SubSeq(AllEvents, 1, Len(ev))
    /\ Len(ev) >= 1 /\ calls[i].span # 0
    /\ Len(ev) >= 2 <=> calls[i].ext # 0
    /\ Len(ev) >= 3 <=> calls[i].dsCalls >= 1
    /\ Len(ev) >= 4 <=> spans[calls[i].span].statusWrites >= 1
    /\ Len(ev) >= 5 <=> calls[i].returned # NoOutcome

C10_Witness ==
  \E i, j \in CallIds :
    /\ i < j /\ Instrumented(i) /\ Instrumented(j)
    /\ calls[j].pc = "done" /\ calls[j].events = AllEvents
    /\ calls[i].pc = "polling" /\ calls[i].events = SubSeq(AllEvents, 1, 3)

\* C11: once the host has dropped the pending future of an instrumented
\* request, http.status_code of its span stays unset, no outcome is ever
\* returned for it and its record never changes again; the drop leaves
\* every other request, every span and the entered scope as they were.
C11_DroppedStaysUnset ==
  /\ [](\A i \in CallIds : (Instrumented(i) /\ calls[i].pc = "dropped") =>
          /\ spans[calls[i].span].http_status_code = Empty
          /\ spans[calls[i].span].statusWrites = 0
          /\ calls[i].returned = NoOutcome
          /\ calls[i].dsOutcome = NoOutcome)
  /\ [][\A i \in CallIds : (Instrumented(i) /\ calls[i].pc = "dropped") =>
          /\ calls'[i] = calls[i]
          /\ spans'[calls[i].span] = spans[calls[i].span]]_vars
  /\ [][\A i \in CallIds :
          (Instrumented(i) /\ calls[i].pc # "dropped" /\ calls'[i].pc = "dropped") =>
            /\ calls[i].pc = "pending"
            /\ \A j \in CallIds \ {i} : calls'[j] = calls[j]
            /\ spans' = spans
            /\ current' = current]_vars

C11_Witness ==
  \E i, j \in CallIds :
    /\ Instrumented(i) /\ calls[i].pc = "dropped" /\ calls[i].polls = 1
    /\ spans[calls[i].span].http_status_code = Empty
    /\ Instrumented(j) /\ calls[j].pc = "done"
    /\ spans[calls[j].span].http_status_code = 200

\* C12 as stated: concurrent instrumented requests have spans with pairwise
\* distinct request_id values, and a recorded status is the one derived from
\* the owning request's outcome.
C12_DistinctRequestIds ==
  /\ \A i, j \in CallIds :
       (Instrumented(i) /\ Instrumented(j) /\ i # j) =>
         /\ calls[i].span # calls[j].span
         /\ spans[calls[i].span].request_id # spans[calls[j].span].request_id
  /\ \A i \in CallIds : Instrumented(i) =>
       (spans[calls[i].span].http_status_code # Empty =>
          spans[calls[i].span].http_status_code = StatusOfOutcome(calls[i].dsOutcome))

\* C12 amended: concurrent instrumented requests have pairwise distinct
\* spans, each carrying the random request_id drawn for it (two draws may
\* coincide); every write of http.status_code is made by the request that
\* owns the span, holds the status derived from that request's downstream
\* outcome, and changes no other span.
C12_OwnSpanIsolatedWrites ==
  /\ [](\A i, j \in CallIds :
          (Instrumented(i) /\ Instrumented(j) /\ i # j) =>
            calls[i].span # calls[j].span)
  /\ [](\A i \in CallIds : Instrumented(i) =>
          /\ spans[calls[i].span].request_id \in Uuids
          /\ spans[calls[i].span].http_status_code # Empty =>
               (calls[i].pc = "done" /\
                spans[calls[i].span].http_status_code =
                  (IF calls[i].dsOutcome.kind = "ok"
                   THEN calls[i].dsOutcome.status
                   ELSE StatusOfError(calls[i].dsOutcome.error))))
  /\ [][\A s \in DOMAIN spans :
          spans'[s].http_status_code # spans[s].http_status_code =>
            \E i \in CallIds :
              /\ calls[i].span = s
              /\ calls[i].pc = "inspect" /\ calls'[i].pc = "done"
              /\ \A t \in DOMAIN spans \ {s} : spans'[t] = spans[t]]_vars

C12_Witness ==
  \E i, j \in CallIds :
    /\ i < j /\ Instrumented(i) /\ Instrumented(j)
    /\ calls[i].pc = "pending" /\ calls[i].polls = 1
    /\ spans[calls[i].span].http_status_code = Empty
    /\ calls[j].pc = "done"
    /\ spans[calls[j].span].http_status_code = 404
    /\ spans[calls[i].span].request_id = spans[calls[j].span].request_id

\* C13: the span of an instrumented request carries the wrapper's service
\* name, the request's method and path, and the route pattern matched when
\* the wrapper ran, or the empty string when none was matched.
C13_SpanFieldsFromRequest ==
  \A i \in CallIds : Instrumented(i) =>
    LET s == spans[calls[i].span]
        r == calls[i].req IN
    /\ s.kind = "request"
    /\ s.service_name = wrappers[calls[i].wrapper].service_name
    /\ s.service_name = factory.service_name
    /\ s.http_method = r.method
    /\ s.http_target = r.path
    /\ r.match_pattern.matched => s.http_route = r.match_pattern.pattern
    /\ ~r.match_pattern.matched => s.http_route = ""

C13_Witness ==
  \E i, j \in CallIds :
    /\ Instrumented(i) /\ Instrumented(j)
    /\ spans[calls[i].span].http_target = "/orders/42"
    /\ spans[calls[i].span].http_route = "/orders/{id}"
    /\ spans[calls[j].span].http_method = "POST"
    /\ spans[calls[j].span].http_route = ""
    /\ spans[calls[j].span].service_name = "app"

\* C17: an instrumented request whose User-Agent header is absent or is not
\* visible ASCII gets http.user_agent = "", and is handled like any other:
\* its span is created, downstream is invoked once, and when it is done the
\* status is recorded and the downstream outcome is returned.
C17_UserAgentDefaultsToEmpty ==
  \A i \in CallIds :
    (~Bypassed(i) /\ ~(calls[i].req.user_agent.present /\ calls[i].req.user_agent.ascii)) =>
      /\ Instrumented(i)
      /\ spans[calls[i].span].http_user_agent = ""
      /\ calls[i].dsCalls = 1
      /\ calls[i].returned.kind = "err" => calls[i].dsOutcome.kind = "err"
      /\ calls[i].pc = "done" =>
           /\ calls[i].returned = calls[i].dsOutcome
           /\ spans[calls[i].span].statusWrites = 1

C17_Witness ==
  \E i, j \in CallIds :
    /\ ~calls[i].req.user_agent.present
    /\ calls[i].pc = "done" /\ calls[i].returned.kind = "ok"
    /\ spans[calls[i].span].http_user_agent = ""
    /\ calls[j].req.user_agent.present /\ ~calls[j].req.user_agent.ascii
    /\ calls[j].pc = "done" /\ calls[j].returned.kind = "ok"
    /\ spans[calls[j].span].http_user_agent = ""

\* C19: when call has returned the future of a non-bypass request and the
\* future has not been polled (it may have been dropped at once), the span
\* exists and is stored in the request's extensions, the downstream service
\* has been invoked exactly once, and no status has been recorded.
C19_SynchronousSetup ==
  \A i \in CallIds :
    (~Bypassed(i) /\ calls[i].polls = 0 /\ calls[i].pc \in {"pending", "dropped"}) =>
      /\ calls[i].span \in DOMAIN spans
      /\ \A j \in CallIds \ {i} : calls[j].span # calls[i].span
      /\ calls[i].ext = calls[i].span
      /\ calls[i].dsCalls = 1
      /\ spans[calls[i].span].http_status_code = Empty
      /\ spans[calls[i].span].statusWrites = 0

C19_Witness ==
  \E i \in CallIds :
    /\ ~Bypassed(i) /\ calls[i].polls = 0 /\ calls[i].pc = "dropped"
    /\ calls[i].dsCalls = 1 /\ calls[i].span = 1 /\ Len(spans) = 1

\* C16: under fair polling every instrumented request that is not dropped
\* becomes done with its status recorded and its outcome returned, and a
\* request that is done after a downstream failure went through the same
\* status-record and return steps as a success.
C16_SettledReachesClosed ==
  /\ \A i \in 1..MaxCalls :
       (i \in CallIds /\ Instrumented(i)) ~>
          (i \in CallIds /\ Instrumented(i) /\
             (calls[i].pc = "dropped" \/
                (calls[i].pc = "done" /\ spans[calls[i].span].http_status_code # Empty)))
  /\ [](\A i \in CallIds : (Instrumented(i) /\ calls[i].pc = "done") =>
          /\ calls[i].events = AllEvents
          /\ spans[calls[i].span].statusWrites = 1
          /\ spans[calls[i].span].http_status_code # Empty)
  /\ [][\A i \in CallIds : Instrumented(i) =>
          /\ calls'[i].pc = "done" => calls[i].pc \in {"inspect", "done"}
          /\ calls[i].pc = "inspect" => calls'[i].pc \in {"inspect", "done"}]_vars

C16_Witness ==
  \E i \in CallIds :
    /\ Instrumented(i) /\ calls[i].pc = "done" /\ calls[i].polls = 2
    /\ calls[i].dsOutcome.kind = "err"
    /\ calls[i].events = AllEvents
    /\ spans[calls[i].span].http_status_code = 500

\* C14: from the downstream invocation on, the request's extensions hold
\* the span the wrapper created for that request, which is the span that
\* receives http.status_code; a field written by downstream work through
\* the stored handle changes that span and no other.
C14_StoredHandleIsRequestSpan ==
  /\ [](\A i \in CallIds : Instrumented(i) =>
          /\ calls[i].ext = calls[i].span
          /\ calls[i].dsCalls >= 1 => calls[i].ext # 0
          /\ calls[i].pc = "done" =>
               spans[calls[i].span].http_status_code # Empty)
  /\ [][\A s \in DOMAIN spans :
          spans'[s].enduser_id # spans[s].enduser_id =>
            \E i \in CallIds :
              /\ running = i
              /\ calls[i].pc \in {"invoke", "polling"}
              /\ calls[i].span = s
              /\ \A t \in DOMAIN spans \ {s} : spans'[t] = spans[t]]_vars

C14_Witness ==
  \E i, j \in CallIds :
    /\ Instrumented(i) /\ calls[i].pc = "done"
    /\ spans[calls[i].span].enduser_id = "user-7"
    /\ spans[calls[i].span].http_status_code = 200
    /\ Instrumented(j) /\ calls[j].pc = "polling"
    /\ spans[calls[j].span].enduser_id = ""

\* C15: new_transform can be called again as long as the model's bound
\* allows; each call adds a wrapper with the factory's service name and one
\* of the given next stages, and no later step changes the factory or an
\* existing wrapper's service name or next stage.
C15_AttachKeepsConfiguration ==
  /\ [](\A w \in DOMAIN wrappers :
          /\ wrappers[w].service_name = factory.service_name
          /\ wrappers[w].service \in Services)
  /\ [](Len(wrappers) < MaxWrappers =>
          \A service \in Services : ENABLED NewTransform(service))
  /\ [][/\ factory' = factory
        /\ Len(wrappers') \in {Len(wrappers), Len(wrappers) + 1}
        /\ \A w \in DOMAIN wrappers :
             /\ wrappers'[w].service_name = wrappers[w].service_name
             /\ wrappers'[w].service = wrappers[w].service]_vars

C15_Witness ==
  /\ Len(wrappers) = 2
  /\ wrappers[1].service # wrappers[2].service
  /\ wrappers[1].service_name = "app" /\ wrappers[2].service_name = "app"
  /\ wrappers[1].ready.ret = "error"
  /\ \E i \in CallIds : calls[i].wrapper = 1 /\ calls[i].pc = "done"
  /\ \E i \in CallIds : calls[i].wrapper = 2 /\ calls[i].pc = "pending"

\* C18: the fields set at span creation never change afterwards, also when
\* the router matches a pattern later; http.status_code is the only field
\* the wrapper's own steps write, and enduser.id is unset at creation and
\* changes only in a step of downstream work.
C18_OnlyStatusWritten ==
  /\ [][\A s \in DOMAIN spans :
          /\ spans'[s].kind = spans[s].kind
          /\ spans'[s].request_id = spans[s].request_id
          /\ spans'[s].service_name = spans[s].service_name
          /\ spans'[s].http_user_agent = spans[s].http_user_agent
          /\ spans'[s].http_method = spans[s].http_method
          /\ spans'[s].http_target = spans[s].http_target
          /\ spans'[s].http_route = spans[s].http_route
          /\ spans'[s].enduser_id # spans[s].enduser_id =>
               (running # 0 /\ calls' = calls
                  /\ calls[running].pc \in {"invoke", "polling"})]_vars
  /\ [][\A s \in DOMAIN spans' \ DOMAIN spans :
          spans'[s].enduser_id = "" /\ spans'[s].http_status_code = Empty]_vars
  /\ [](\A i \in CallIds : Instrumented(i) =>
          spans[calls[i].span].http_route =
            (IF calls[i].req.match_pattern.matched
             THEN calls[i].req.match_pattern.pattern ELSE ""))

C18_Witness ==
  \E i, j \in CallIds :
    /\ Instrumented(i) /\ calls[i].pc = "done"
    /\ ~calls[i].req.match_pattern.matched /\ calls[i].routed.matched
    /\ spans[calls[i].span].http_route = ""
    /\ spans[calls[i].span].enduser_id = ""
    /\ spans[calls[i].span].http_status_code = 404
    /\ Instrumented(j) /\ calls[j].pc = "done"
    /\ spans[calls[j].span].enduser_id = "user-7"

\* C20: poll_ready returns what the downstream service's poll_ready
\* returned, whether pending, ready or error, and a poll_ready call leaves
\* the spans, the requests and the entered scope untouched.
C20_PollReadyDelegates ==
  /\ [](\A w \in DOMAIN wrappers :
          /\ wrappers[w].ready.ret = wrappers[w].ready.ds
          /\ wrappers[w].ready.ret \in ReadyResults \cup {"none"})
  /\ [][\A w \in DOMAIN wrappers :
          wrappers'[w].ready # wrappers[w].ready =>
            (spans' = spans /\ calls' = calls /\ current' = current
               /\ factory' = factory)]_vars

C20_Witness ==
  \E w, v \in DOMAIN wrappers :
    /\ wrappers[w].ready = [ds |-> "error", ret |-> "error"]
    /\ wrappers[v].ready = [ds |-> "pending", ret |-> "pending"]
    /\ \E i \in CallIds : calls[i].wrapper = w /\ Instrumented(i) /\ calls[i].pc = "pending"
    /\ Len(spans) = 1

====
